---- MODULE Spec2Model ----
(***************************************************************************)
(* A model of the daily-logger crate (src/src/logger.rs): the process-wide *)
(* configuration (base path and the two thresholds), the log facade's      *)
(* installed-logger flag and maximum level, the bounded LRU cache of       *)
(* buffered append-mode file handles, and the threads that call            *)
(* init_logger and Log::log.                                               *)
(*                                                                         *)
(* The program modelled is the one the crate's tests run: a main thread    *)
(* calls init_logger, logs WarmupLen keyed records one after the other     *)
(* (tests::test_file_cache_functionality) and then spawns worker threads   *)
(* that each emit one record (tests::test_concurrent_logging) or call      *)
(* init_logger again.                                                      *)
(*                                                                         *)
(* Spec is that program on a storage whose opens may fail; SpecFault is    *)
(* the main thread alone on a storage whose flushes may fail; SpecLive is  *)
(* the program while every open succeeds, under a fair scheduler.          *)
(***************************************************************************)
EXTENDS Integers, Sequences, FiniteSets, TLC

\* ------------------------------------------------------------------------
\* Bounds of the model
\* ------------------------------------------------------------------------
\* distinct uuid values the warm-up loop of the main thread cycles through
NumKeys == 32
\* records the main thread logs before it spawns the workers
WarmupLen == 33
\* last value of the wall clock
MaxClock == 2
\* clock values per calendar day
TicksPerDay == 2
\* file opens the environment may refuse
MaxOpenFail == 1
\* flushes the environment may refuse (storage faults of SpecFault)
MaxFlushFail == 1

\* ------------------------------------------------------------------------
\* Program constants and value domains
\* ------------------------------------------------------------------------
MAX_CACHE_SIZE == 32

Workers == {"w1", "w2"}
Threads == {"main"} \cup Workers

\* the holder of FILE_CACHE when it is free
NoThread == "none"
\* record.key_values().get("uuid") == None
NoKey == 0

\* log::Level / log::LevelFilter as usize (Off = 0 < Error < ... < Trace)
Rank(l) ==
  CASE l = "Off" -> 0
    [] l = "Error" -> 1
    [] l = "Warn" -> 2
    [] l = "Info" -> 3
    [] l = "Debug" -> 4
    [] l = "Trace" -> 5

\* the Display form of log::Level used by format!("{}", record.level())
LevelName(l) ==
  CASE l = "Error" -> "ERROR"
    [] l = "Warn" -> "WARN"
    [] l = "Info" -> "INFO"
    [] l = "Debug" -> "DEBUG"
    [] l = "Trace" -> "TRACE"

\* stdout_level.max(file_level)
MaxFilter(a, b) == IF Rank(a) >= Rank(b) THEN a ELSE b

\* the argument lists init_logger is called with in this repository
Configs ==
  { [stdout_level |-> "Off", file_level |-> "Trace", base_path |-> "test_logs"],
    [stdout_level |-> "Trace", file_level |-> "Info", base_path |-> "log_test1"] }

\* the argument lists a later init_logger call is made with: the ones above
\* and one that lowers both thresholds
Reconfigs ==
  Configs \cup
    { [stdout_level |-> "Warn", file_level |-> "Info", base_path |-> "log_test1"] }

\* log::Level
Levels == {"Error", "Warn", "Info", "Debug", "Trace"}

\* the i-th record of the warm-up loop (i counts from 0)
WarmupRecord(i) ==
  [level |-> "Info", target |-> "cache_test", uuid |-> (i % NumKeys) + 1,
   msg |-> <<"main", i>>]

\* the uuid the warm-up loop logged last (its handle is cached when the
\* workers start) and the next one (its handle is not)
LastKey == ((WarmupLen - 1) % NumKeys) + 1
NextKey == LastKey + 1

\* the records a worker may log: keyed and not keyed, at a level both file
\* thresholds admit and at one only Trace admits
WorkerRecords(t) ==
  { [level |-> "Info", target |-> "concurrent", uuid |-> LastKey, msg |-> <<t, 0>>],
    [level |-> "Info", target |-> "concurrent", uuid |-> NextKey, msg |-> <<t, 0>>],
    [level |-> "Debug", target |-> "concurrent", uuid |-> LastKey, msg |-> <<t, 0>>],
    [level |-> "Info", target |-> "concurrent", uuid |-> NoKey, msg |-> <<t, 0>>] }

\* ------------------------------------------------------------------------
\* Pure functions of the logger
\* ------------------------------------------------------------------------
\* now.year(), now.month(), now.day(): clock value 0 lies on 2025-12-31
DayNo(now) == now \div TicksPerDay
Year(now) == IF DayNo(now) = 0 THEN 2025 ELSE 2026
Month(now) == IF DayNo(now) = 0 THEN 12 ELSE 1
Day(now) == IF DayNo(now) = 0 THEN 31 ELSE DayNo(now)

\* DateLogName computed once, from the date the process started on
DateLogNameStale(now) == <<"log_", Year(0), "_", Month(0), "_", Day(0), ".log">>

\* format!("log_{}_{}_{}.log", now.year(), now.month(), now.day())
DateLogName(now) == <<"log_", Year(now), "_", Month(now), "_", Day(now), ".log">>

\* OrderLogName that ignores the uuid of the record
OrderLogNameFixed(uuid) == <<"order_", 1, ".log">>

\* format!("order_{uuid}.log")
OrderLogName(uuid) == <<"order_", uuid, ".log">>

\* base_path.map(|base| base.join(file_name)).unwrap_or_else(|| PathBuf::from(file_name))
\* an Option<PathBuf> is a sequence of length 0 (None) or 1 (Some)
FullPath(base, name) == IF base = <<>> THEN name ELSE base \o name

\* format!("{}-{}|[{}]: {}", now.to_rfc3339(), level, target, args)
FormatPlain(now, r) ==
  [ts |-> now, dash |-> "-", level |-> LevelName(r.level), open |-> "|[",
   target |-> r.target, sep |-> "]: ", uuid |-> NoKey, close |-> "", msg |-> r.msg]

\* format!("{}-{}|[{}]<{}>:{}", now.to_rfc3339(), level, target, uuid, args)
FormatKeyed(now, r) ==
  [ts |-> now, dash |-> "-", level |-> LevelName(r.level), open |-> "|[",
   target |-> r.target, sep |-> "]<", uuid |-> r.uuid, close |-> ">:", msg |-> r.msg]

\* the line of a record: keyed when the record carries uuid
LogEntry(now, r) == IF r.uuid # NoKey THEN FormatKeyed(now, r) ELSE FormatPlain(now, r)

\* the console line: the entry wrapped in the colour of its level
Colored(l, entry) ==
  [color |-> CASE l = "Error" -> "\\x1b[31m"
               [] l = "Warn" -> "\\x1b[33m"
               [] l = "Info" -> "\\x1b[32m"
               [] l = "Debug" -> "\\x1b[37m"
               [] l = "Trace" -> "\\x1b[90m",
   entry |-> entry, reset |-> "\\x1b[0m"]

\* the two pieces writeln!(writer, "{log_entry}") hands to the BufWriter
EntryPiece(entry) == [part |-> "entry", text |-> entry]
NewlinePiece ==
  [part |-> "nl",
   text |-> [ts |-> 0, dash |-> "", level |-> "", open |-> "", target |-> "",
             sep |-> "", uuid |-> NoKey, close |-> "", msg |-> <<"", 0>>]]

\* Touch that leaves the queue as it is: a hit does not refresh the path
TouchNoMove(ord, p) == ord

\* Touch without retain: the path is pushed once more
TouchNoRetain(ord, p) == Append(ord, p)

\* self.order.retain(|f| f != &path); self.order.push_back(path)
Touch(ord, p) == SelectSeq(ord, LAMBDA f : f # p) \o <<p>>

\* AtCapacity with the comparison off by one: eviction starts one entry late
AtCapacityLate(fs) == Cardinality(DOMAIN fs) > MAX_CACHE_SIZE

\* if self.files.len() >= self.max_size
AtCapacity(fs) == Cardinality(DOMAIN fs) >= MAX_CACHE_SIZE

\* the entries get_or_open evicts before it opens a path that is not cached
Evicts(fs, ord) == AtCapacity(fs) /\ ord # <<>>

\* OrderAfterEvict that leaves the evicted path in the queue
OrderAfterEvictKept(fs, ord) == ord

\* self.order.pop_front()
OrderAfterEvict(fs, ord) == IF Evicts(fs, ord) THEN Tail(ord) ELSE ord

\* self.files.remove(&oldest)
FilesAfterEvict(fs, ord) ==
  IF Evicts(fs, ord) THEN [p \in DOMAIN fs \ {Head(ord)} |-> fs[p]] ELSE fs

\* dropping the evicted BufWriter writes out what its buffer still holds
DiskAfterEvict(dk, fs, ord) ==
  IF Evicts(fs, ord) /\ Head(ord) \in DOMAIN fs /\ Head(ord) \in DOMAIN dk
  THEN [dk EXCEPT ![Head(ord)] = @ \o fs[Head(ord)]]
  ELSE dk

\* OpenAppend with truncate(true) in place of append(true)
OpenTruncate(dk, p) == (p :> <<>>) @@ dk

\* OpenOptions::new().create(true).append(true).open(&path): the file is
\* created empty when absent and its content is kept when present
OpenAppend(dk, p) == IF p \in DOMAIN dk THEN dk ELSE dk @@ (p :> <<>>)

\* ------------------------------------------------------------------------
\* State
\* ------------------------------------------------------------------------
VARIABLES
  base_path,     \* DailyLogger.base_path: <<>> or <<path>>
  stdout_level,  \* DailyLogger.stdout_level
  file_level,    \* DailyLogger.file_level
  max_level,     \* log::max_level()
  logger_set,    \* log::set_logger has installed LOGGER
  cacheLock,     \* the thread that holds the FILE_CACHE mutex, or NoThread
  poisoned,      \* a thread panicked while holding the FILE_CACHE mutex
  files,         \* FileCache.files: path -> the bytes its BufWriter buffers
  order,         \* FileCache.order: paths, least recently used first
  lastUse,       \* per cached path, the number of its latest get_or_open call
  disk,          \* the file system: path -> the pieces written to the file
  fds,           \* the file table: per path, how often it was opened and closed
  console,       \* the lines printed on standard output
  clock,         \* Local::now()
  failsLeft,     \* opens the environment may still refuse
  flushFailsLeft, \* flushes the environment may still refuse
  th,            \* per thread: program counter and locals of the running call
  warmed,        \* records the main thread has logged
  spawned,       \* the workers have been spawned
  hist           \* the log calls that have returned to their caller

cfgVars == <<base_path, stdout_level, file_level, max_level, logger_set>>
cacheVars == <<cacheLock, poisoned, files, order, lastUse>>
fsVars == <<disk, fds>>
envVars == <<console, clock, failsLeft, flushFailsLeft>>
scriptVars == <<warmed, spawned>>
vars == <<cfgVars, cacheVars, fsVars, envVars, scriptVars, th, hist>>

NoRecord == [level |-> "Off", target |-> "", uuid |-> NoKey, msg |-> <<"", 0>>]
NoConfig == [stdout_level |-> "Off", file_level |-> "Off", base_path |-> ""]

\* the locals of a thread that runs no call
Idle(pc) ==
  [pc |-> pc, rec |-> NoRecord, arg |-> NoConfig, sl |-> "Off", fl |-> "Off",
   now |-> 0, entry |-> NewlinePiece.text, base |-> <<>>,
   name |-> <<>>, path |-> <<>>, ret |-> "", acq |-> <<>>, printed |-> FALSE,
   panic |-> "", prior |-> 0]

Init ==
  /\ base_path = <<>>
  /\ stdout_level = "Info"
  /\ file_level = "Info"
  /\ max_level = "Off"
  /\ logger_set = FALSE
  /\ cacheLock = NoThread
  /\ poisoned = FALSE
  /\ files = <<>>
  /\ order = <<>>
  /\ lastUse = <<>>
  /\ disk = <<>>
  /\ fds = <<>>
  /\ console = <<>>
  /\ clock = 0
  /\ failsLeft = MaxOpenFail
  /\ flushFailsLeft = MaxFlushFail
  /\ th = [t \in Threads |-> Idle(IF t = "main" THEN "start" ELSE "idle")]
  /\ warmed = 0
  /\ spawned = FALSE
  /\ hist = {}

\* ------------------------------------------------------------------------
\* Predicates of the code's conditions
\* ------------------------------------------------------------------------
\* metadata.level() <= log::max_level()
IsEnabled(r, ml) == Rank(r.level) <= Rank(ml)

\* FileGate that admits one level more than the threshold
FileGateLax(r, fl) == Rank(r.level) <= Rank(fl) + 1

\* record.level() <= file_level
FileGate(r, fl) == Rank(r.level) <= Rank(fl)

\* record.level() <= stdout_level
ConsoleGate(r, sl) == Rank(r.level) <= Rank(sl)

\* HasKey that takes every record for a keyed one
HasKeyAlways(r) == TRUE

\* key_values.get(Key::from("uuid")) is Some
HasKey(r) == r.uuid # NoKey

\* CanLock without mutual exclusion: the cache is entered while it is held
CanLockAlways(holder) == TRUE

\* FILE_CACHE.lock() returns once no other thread holds the mutex
CanLock(holder) == holder = NoThread

\* ------------------------------------------------------------------------
\* The threads' scripts
\* ------------------------------------------------------------------------
\* main: init_logger(...) with one of the repository's argument lists
MainInit(c) ==
  /\ th["main"].pc = "start"
  /\ th' = [th EXCEPT !["main"] = [Idle("set_base_path") EXCEPT !.arg = c]]
  /\ UNCHANGED <<cfgVars, cacheVars, fsVars, envVars, scriptVars, hist>>

\* main: the next record of the warm-up loop
MainLog ==
  /\ th["main"].pc = "idle"
  /\ warmed < WarmupLen
  /\ th' = [th EXCEPT !["main"] = [Idle("enabled") EXCEPT !.rec = WarmupRecord(warmed)]]
  /\ warmed' = warmed + 1
  /\ UNCHANGED <<cfgVars, cacheVars, fsVars, envVars, spawned, hist>>

\* main: thread::spawn of the workers once the loop is over
MainSpawn ==
  /\ th["main"].pc = "idle"
  /\ warmed = WarmupLen
  /\ ~spawned
  /\ spawned' = TRUE
  /\ th' = [th EXCEPT !["main"] = Idle("done")]
  /\ UNCHANGED <<cfgVars, cacheVars, fsVars, envVars, warmed, hist>>

\* a worker emits its record
WorkerLog(t, r) ==
  /\ t \in Workers
  /\ spawned
  /\ th[t].pc = "idle"
  /\ r \in WorkerRecords(t)
  /\ th' = [th EXCEPT ![t] = [Idle("enabled") EXCEPT !.rec = r]]
  /\ UNCHANGED <<cfgVars, cacheVars, fsVars, envVars, scriptVars, hist>>

\* a worker calls init_logger again
WorkerInit(t, c) ==
  /\ t \in Workers
  /\ spawned
  /\ th[t].pc = "idle"
  /\ c \in Reconfigs
  /\ th' = [th EXCEPT ![t] = [Idle("set_base_path") EXCEPT !.arg = c]]
  /\ UNCHANGED <<cfgVars, cacheVars, fsVars, envVars, scriptVars, hist>>

\* where a thread continues when its call returns: the main thread with its
\* loop, a worker with the end of its closure
AfterCall(t) == IF t = "main" THEN "idle" ELSE "done"

\* ------------------------------------------------------------------------
\* init_logger
\* ------------------------------------------------------------------------
\* LOGGER.set_base_path(base_path.into())
SetBasePath(t) ==
  /\ th[t].pc = "set_base_path"
  /\ base_path' = <<th[t].arg.base_path>>
  /\ th' = [th EXCEPT ![t].pc = "set_stdout_level"]
  /\ UNCHANGED <<stdout_level, file_level, max_level, logger_set, cacheVars,
                 fsVars, envVars, scriptVars, hist>>

\* set_levels: *self.stdout_level.lock().unwrap() = stdout_level
SetStdoutLevel(t) ==
  /\ th[t].pc = "set_stdout_level"
  /\ stdout_level' = th[t].arg.stdout_level
  /\ th' = [th EXCEPT ![t].pc = "set_file_level"]
  /\ UNCHANGED <<base_path, file_level, max_level, logger_set, cacheVars,
                 fsVars, envVars, scriptVars, hist>>

\* set_levels: *self.file_level.lock().unwrap() = file_level
SetFileLevel(t) ==
  /\ th[t].pc = "set_file_level"
  /\ file_level' = th[t].arg.file_level
  /\ th' = [th EXCEPT ![t].pc = "set_logger"]
  /\ UNCHANGED <<base_path, stdout_level, max_level, logger_set, cacheVars,
                 fsVars, envVars, scriptVars, hist>>

\* log::set_logger(&*LOGGER) returns Ok: no logger was installed before
SetLoggerOk(t) ==
  /\ th[t].pc = "set_logger"
  /\ ~logger_set
  /\ logger_set' = TRUE
  /\ th' = [th EXCEPT ![t].pc = "set_max_level"]
  /\ UNCHANGED <<base_path, stdout_level, file_level, max_level, cacheVars,
                 fsVars, envVars, scriptVars, hist>>

\* log::set_logger(&*LOGGER) returns Err(SetLoggerError): unwrap() panics
SetLoggerPanic(t) ==
  /\ th[t].pc = "set_logger"
  /\ logger_set
  /\ th' = [th EXCEPT ![t].pc = "panicked", ![t].panic = "SetLoggerError"]
  /\ UNCHANGED <<cfgVars, cacheVars, fsVars, envVars, scriptVars, hist>>

\* log::set_max_level(stdout_level.max(file_level)); init_logger returns
SetMaxLevel(t) ==
  /\ th[t].pc = "set_max_level"
  /\ max_level' = MaxFilter(th[t].arg.stdout_level, th[t].arg.file_level)
  /\ th' = [th EXCEPT ![t].pc = AfterCall(t)]
  /\ UNCHANGED <<base_path, stdout_level, file_level, logger_set, cacheVars,
                 fsVars, envVars, scriptVars, hist>>

\* ------------------------------------------------------------------------
\* Log::log
\* ------------------------------------------------------------------------
\* what the caller of a finished log call can be asked about
Returned(t) ==
  [t |-> t, rec |-> th[t].rec, enabled |-> th[t].pc # "enabled", sl |-> th[t].sl,
   fl |-> th[t].fl, now |-> th[t].now, entry |-> th[t].entry, acq |-> th[t].acq,
   printed |-> th[t].printed, prior |-> th[t].prior, seq |-> Cardinality(hist)]

\* if !self.enabled(record.metadata()) { return; }
CheckEnabled(t) ==
  /\ th[t].pc = "enabled"
  /\ IF IsEnabled(th[t].rec, max_level)
     THEN /\ th' = [th EXCEPT ![t].pc = "read_stdout_level"]
          /\ UNCHANGED hist
     ELSE /\ th' = [th EXCEPT ![t].pc = AfterCall(t)]
          /\ hist' = hist \cup {Returned(t)}
  /\ UNCHANGED <<cfgVars, cacheVars, fsVars, envVars, scriptVars>>

\* let stdout_level = *self.stdout_level.lock().unwrap();
ReadStdoutLevel(t) ==
  /\ th[t].pc = "read_stdout_level"
  /\ th' = [th EXCEPT ![t].sl = stdout_level, ![t].pc = "read_file_level"]
  /\ UNCHANGED <<cfgVars, cacheVars, fsVars, envVars, scriptVars, hist>>

\* let file_level = *self.file_level.lock().unwrap();
ReadFileLevel(t) ==
  /\ th[t].pc = "read_file_level"
  /\ th' = [th EXCEPT ![t].fl = file_level, ![t].pc = "format"]
  /\ UNCHANGED <<cfgVars, cacheVars, fsVars, envVars, scriptVars, hist>>

\* Nows of a wall clock that may be set back between two readings
NowsAny == 0..MaxClock

\* the values Local::now() may return: the wall clock does not run backwards;
\* it counts from the spawning of the workers, the warm-up loop runs within
\* its first value
Nows == IF spawned THEN clock..MaxClock ELSE {clock}

\* let now = Local::now(); log_entry = format!(...), keyed when uuid is present
FormatEntry(t, now) ==
  /\ th[t].pc = "format"
  /\ now \in Nows
  /\ clock' = now
  /\ th' = [th EXCEPT ![t].now = now, ![t].entry = LogEntry(now, th[t].rec),
                      ![t].prior = Cardinality(hist), ![t].pc = "key_gate"]
  /\ UNCHANGED <<cfgVars, cacheVars, fsVars, console, failsLeft, flushFailsLeft,
                 scriptVars, hist>>

\* if let Some(uuid) = ... { if record.level() <= file_level {
\*     write_to_file(&file_name, &log_entry, self.get_base_path()) } }
KeyGate(t) ==
  /\ th[t].pc = "key_gate"
  /\ IF HasKey(th[t].rec) /\ FileGate(th[t].rec, th[t].fl)
     THEN th' = [th EXCEPT ![t].name = OrderLogName(th[t].rec.uuid),
                           ![t].base = base_path, ![t].ret = "console",
                           ![t].pc = "lock"]
     ELSE th' = [th EXCEPT ![t].pc = "console"]
  /\ UNCHANGED <<cfgVars, cacheVars, fsVars, envVars, scriptVars, hist>>

\* if record.level() <= stdout_level { println!("{colored_entry}") }
Console(t) ==
  /\ th[t].pc = "console"
  /\ IF ConsoleGate(th[t].rec, th[t].sl)
     THEN /\ console' = Append(console, Colored(th[t].rec.level, th[t].entry))
          /\ th' = [th EXCEPT ![t].printed = TRUE, ![t].pc = "day_gate"]
     ELSE /\ th' = [th EXCEPT ![t].pc = "day_gate"]
          /\ UNCHANGED console
  /\ UNCHANGED <<cfgVars, cacheVars, fsVars, clock, failsLeft, flushFailsLeft,
                 scriptVars, hist>>

\* if record.level() <= file_level {
\*     write_to_file(&date_log_name, &log_entry, self.get_base_path()) }
DayGate(t) ==
  /\ th[t].pc = "day_gate"
  /\ IF FileGate(th[t].rec, th[t].fl)
     THEN th' = [th EXCEPT ![t].name = DateLogName(th[t].now),
                           ![t].base = base_path, ![t].ret = "return",
                           ![t].pc = "lock"]
     ELSE th' = [th EXCEPT ![t].pc = "return"]
  /\ UNCHANGED <<cfgVars, cacheVars, fsVars, envVars, scriptVars, hist>>

\* log returns to the thread that emitted the record
Return(t) ==
  /\ th[t].pc = "return"
  /\ hist' = hist \cup {Returned(t)}
  /\ th' = [th EXCEPT ![t].pc = AfterCall(t)]
  /\ UNCHANGED <<cfgVars, cacheVars, fsVars, envVars, scriptVars>>

\* ------------------------------------------------------------------------
\* write_to_file and FileCache::get_or_open
\* ------------------------------------------------------------------------
\* Unlocked for a guard that is never dropped: the holder keeps the lock
UnlockedNever(holder) == holder

\* the MutexGuard of FILE_CACHE is dropped: nobody holds the lock
Unlocked(holder) == NoThread

\* Appended for a handle that writes at the start of the file
AppendedAtStart(dk, p, buf) == [dk EXCEPT ![p] = buf \o @]

\* the file at p after the bytes buf were written through a handle opened
\* with append(true): they go to the end of the file
Appended(dk, p, buf) == [dk EXCEPT ![p] = @ \o buf]

\* the file table after the evicted BufWriter<File> is dropped (closed)
FdsAfterEvict(fd, fs, ord) ==
  IF Evicts(fs, ord) /\ Head(ord) \in DOMAIN fs /\ Head(ord) \in DOMAIN fd
  THEN [fd EXCEPT ![Head(ord)].closed = @ + 1]
  ELSE fd

\* the file table after open(&path) succeeded
FdsAfterOpen(fd, p) ==
  IF p \in DOMAIN fd
  THEN [fd EXCEPT ![p].opened = @ + 1]
  ELSE fd @@ (p :> [opened |-> 1, closed |-> 0])

\* the number of the next get_or_open call that returns a handle
NextUse(lu) ==
  IF DOMAIN lu = {} THEN 1
  ELSE 1 + (CHOOSE n \in {lu[q] : q \in DOMAIN lu} : \A q \in DOMAIN lu : lu[q] <= n)

\* the call numbers after get_or_open returned the handle of p from the cache fs
Used(lu, fs, p) ==
  [q \in DOMAIN fs |-> IF q = p THEN NextUse(lu) ELSE lu[q]]

\* the file descriptions the process holds open on path p
OpenHandles(p) == IF p \in DOMAIN fds THEN fds[p].opened - fds[p].closed ELSE 0

\* let mut cache = FILE_CACHE.lock().unwrap(); let full_path = ...
LockOk(t) ==
  /\ th[t].pc = "lock"
  /\ CanLock(cacheLock)
  /\ ~poisoned
  /\ cacheLock' = t
  /\ th' = [th EXCEPT ![t].path = FullPath(th[t].base, th[t].name),
                      ![t].pc = "get_or_open"]
  /\ UNCHANGED <<cfgVars, poisoned, files, order, lastUse, fsVars, envVars,
                 scriptVars, hist>>

\* FILE_CACHE.lock() returns Err(PoisonError): unwrap() panics
LockPoisoned(t) ==
  /\ th[t].pc = "lock"
  /\ CanLock(cacheLock)
  /\ poisoned
  /\ th' = [th EXCEPT ![t].pc = "panicked", ![t].panic = "PoisonError"]
  /\ UNCHANGED <<cfgVars, cacheVars, fsVars, envVars, scriptVars, hist>>

\* get_or_open, self.files.contains_key(&path): move path to the back of order
GetOrOpenHit(t) ==
  /\ th[t].pc = "get_or_open"
  /\ th[t].path \in DOMAIN files
  /\ order' = Touch(order, th[t].path)
  /\ lastUse' = Used(lastUse, files, th[t].path)
  /\ th' = [th EXCEPT ![t].acq = Append(@, th[t].path), ![t].pc = "writeln_entry"]
  /\ UNCHANGED <<cfgVars, cacheLock, poisoned, files, fsVars, envVars, scriptVars, hist>>

\* get_or_open, path not cached: evict when full, create_dir_all, open, insert
GetOrOpenMiss(t) ==
  /\ th[t].pc = "get_or_open"
  /\ th[t].path \notin DOMAIN files
  /\ files' = FilesAfterEvict(files, order) @@ (th[t].path :> <<>>)
  /\ order' = Append(OrderAfterEvict(files, order), th[t].path)
  /\ lastUse' = Used(lastUse, files', th[t].path)
  /\ disk' = OpenAppend(DiskAfterEvict(disk, files, order), th[t].path)
  /\ fds' = FdsAfterOpen(FdsAfterEvict(fds, files, order), th[t].path)
  /\ th' = [th EXCEPT ![t].acq = Append(@, th[t].path), ![t].pc = "writeln_entry"]
  /\ UNCHANGED <<cfgVars, cacheLock, poisoned, envVars, scriptVars, hist>>

\* get_or_open, path not cached and open(&path) fails: expect() panics after
\* the eviction; the unwinding drops the guard and poisons FILE_CACHE
GetOrOpenFail(t) ==
  /\ th[t].pc = "get_or_open"
  /\ th[t].path \notin DOMAIN files
  /\ failsLeft > 0
  /\ failsLeft' = failsLeft - 1
  /\ files' = FilesAfterEvict(files, order)
  /\ order' = OrderAfterEvict(files, order)
  /\ lastUse' = [q \in DOMAIN files' |-> lastUse[q]]
  /\ disk' = DiskAfterEvict(disk, files, order)
  /\ fds' = FdsAfterEvict(fds, files, order)
  /\ poisoned' = TRUE
  /\ cacheLock' = Unlocked(cacheLock)
  /\ th' = [th EXCEPT ![t].pc = "panicked", ![t].panic = "Failed to open log file"]
  /\ UNCHANGED <<cfgVars, console, clock, flushFailsLeft, scriptVars, hist>>

\* Buffered that loses the piece handed to the BufWriter
BufferedLost(fs, p, piece) == fs

\* the buffer of the handle after one more piece was written to it
Buffered(fs, p, piece) == IF p \in DOMAIN fs THEN [fs EXCEPT ![p] = Append(@, piece)] ELSE fs

\* writeln!(writer, "{log_entry}"): the entry
WritelnEntry(t) ==
  /\ th[t].pc = "writeln_entry"
  /\ files' = Buffered(files, th[t].path, EntryPiece(th[t].entry))
  /\ th' = [th EXCEPT ![t].pc = "writeln_nl"]
  /\ UNCHANGED <<cfgVars, cacheLock, poisoned, order, lastUse, fsVars, envVars,
                 scriptVars, hist>>

\* writeln!(writer, "{log_entry}"): the line terminator
WritelnNewline(t) ==
  /\ th[t].pc = "writeln_nl"
  /\ files' = Buffered(files, th[t].path, NewlinePiece)
  /\ th' = [th EXCEPT ![t].pc = "flush"]
  /\ UNCHANGED <<cfgVars, cacheLock, poisoned, order, lastUse, fsVars, envVars,
                 scriptVars, hist>>

\* writer.flush(): the buffer goes to the end of the file; write_to_file
\* returns and drops the guard
Flush(t) ==
  /\ th[t].pc = "flush"
  /\ IF th[t].path \in DOMAIN files
     THEN /\ disk' = Appended(disk, th[t].path, files[th[t].path])
          /\ files' = [files EXCEPT ![th[t].path] = <<>>]
     ELSE UNCHANGED <<disk, files>>
  /\ cacheLock' = Unlocked(cacheLock)
  /\ th' = [th EXCEPT ![t].pc = th[t].ret]
  /\ UNCHANGED <<cfgVars, poisoned, order, lastUse, fds, envVars, scriptVars, hist>>

\* Kept of a BufWriter that discards its buffer when a flush fails
KeptNothing(buf, k) == <<>>

\* what a BufWriter keeps in its buffer when its flush failed after it had
\* written the first k pieces
Kept(buf, k) == SubSeq(buf, k + 1, Len(buf))

\* writer.flush() fails (let _ = ignores the error): the BufWriter has written
\* the first k pieces of its buffer and keeps the rest; write_to_file returns
\* and drops the guard
FlushFail(t) ==
  /\ th[t].pc = "flush"
  /\ th[t].path \in DOMAIN files
  /\ flushFailsLeft > 0
  /\ flushFailsLeft' = flushFailsLeft - 1
  /\ \E k \in 0..(Len(files[th[t].path]) - 1) :
       /\ disk' = Appended(disk, th[t].path, SubSeq(files[th[t].path], 1, k))
       /\ files' = [files EXCEPT ![th[t].path] = Kept(@, k)]
  /\ cacheLock' = Unlocked(cacheLock)
  /\ th' = [th EXCEPT ![t].pc = th[t].ret]
  /\ UNCHANGED <<cfgVars, poisoned, order, lastUse, fds, console, clock, failsLeft,
                 scriptVars, hist>>

\* the locks the statement at a program counter takes (each is released
\* before the statement ends): the three mutexes of LOGGER and FILE_CACHE
Acquires(pc) ==
  CASE pc \in {"set_base_path", "key_gate", "day_gate"} -> {"base_path"}
    [] pc \in {"set_stdout_level", "read_stdout_level"} -> {"stdout_level"}
    [] pc \in {"set_file_level", "read_file_level"} -> {"file_level"}
    [] pc = "lock" -> {"file_cache"}
    [] OTHER -> {}

\* the locks a thread holds between two of its statements
Holds(t) == IF cacheLock = t THEN {"file_cache"} ELSE {}

Next ==
  \/ \E c \in Configs : MainInit(c)
  \/ MainLog
  \/ MainSpawn
  \/ \E t \in Workers : \E r \in WorkerRecords(t) : WorkerLog(t, r)
  \/ \E t \in Workers : \E c \in Reconfigs : WorkerInit(t, c)
  \/ \E t \in Threads :
       \/ SetBasePath(t)
       \/ SetStdoutLevel(t)
       \/ SetFileLevel(t)
       \/ SetLoggerOk(t)
       \/ SetLoggerPanic(t)
       \/ SetMaxLevel(t)
       \/ CheckEnabled(t)
       \/ ReadStdoutLevel(t)
       \/ ReadFileLevel(t)
       \/ \E now \in 0..MaxClock : FormatEntry(t, now)
       \/ KeyGate(t)
       \/ Console(t)
       \/ DayGate(t)
       \/ Return(t)
       \/ LockOk(t)
       \/ LockPoisoned(t)
       \/ GetOrOpenHit(t)
       \/ GetOrOpenMiss(t)
       \/ GetOrOpenFail(t)
       \/ WritelnEntry(t)
       \/ WritelnNewline(t)
       \/ Flush(t)

Spec == Init /\ [][Next]_vars

\* the steps of init_logger
InitStep(t) ==
  \/ SetBasePath(t)
  \/ SetStdoutLevel(t)
  \/ SetFileLevel(t)
  \/ SetLoggerOk(t)
  \/ SetMaxLevel(t)

\* the steps of a log call while every open succeeds
LogStep(t) ==
  \/ CheckEnabled(t)
  \/ ReadStdoutLevel(t)
  \/ ReadFileLevel(t)
  \/ \E now \in 0..MaxClock : FormatEntry(t, now)
  \/ KeyGate(t)
  \/ Console(t)
  \/ DayGate(t)
  \/ Return(t)
  \/ LockOk(t)
  \/ GetOrOpenHit(t)
  \/ GetOrOpenMiss(t)
  \/ WritelnEntry(t)
  \/ WritelnNewline(t)
  \/ Flush(t)

\* the main thread alone (init_logger and the warm-up loop) on a storage that
\* may refuse flushes
NextFault ==
  \/ \E c \in Configs : MainInit(c)
  \/ MainLog
  \/ InitStep("main")
  \/ LogStep("main")
  \/ FlushFail("main")

SpecFault == Init /\ [][NextFault]_vars

\* the whole program while every open succeeds
NextLive ==
  \/ \E c \in Configs : MainInit(c)
  \/ MainLog
  \/ MainSpawn
  \/ \E t \in Workers : \E r \in WorkerRecords(t) : WorkerLog(t, r)
  \/ \E t \in Workers : \E c \in Reconfigs : WorkerInit(t, c)
  \/ \E t \in Threads : InitStep(t) \/ SetLoggerPanic(t) \/ LogStep(t)

\* the scheduler runs every thread that can take a step of its call: a thread
\* that waits for FILE_CACHE gets it once the holders before it have returned
SpecLive ==
  Init /\ [][NextLive]_vars /\ \A t \in Threads : WF_vars(InitStep(t) \/ LogStep(t))

\* ------------------------------------------------------------------------
\* Properties
\* ------------------------------------------------------------------------
\* a thread is inside the body of write_to_file, after lock() returned
InWrite(t) == th[t].pc \in {"get_or_open", "writeln_entry", "writeln_nl", "flush"}

\* a thread holds the handle get_or_open returned to it
HoldsHandle(t) == th[t].pc \in {"writeln_entry", "writeln_nl", "flush"}

\* a file content made of whole lines: every entry is followed by its terminator
WholeLines(s) ==
  /\ Len(s) % 2 = 0
  /\ \A i \in 1..Len(s) : s[i].part = (IF i % 2 = 1 THEN "entry" ELSE "nl")

\* in the file system dk the file at path p holds the complete line of entry e
HasLine(dk, p, e) ==
  /\ p \in DOMAIN dk
  /\ LET s == dk[p]
         piece == EntryPiece(e)
     IN \E i \in 1..(Len(s) - 1) : s[i] = piece /\ s[i + 1] = NewlinePiece

\* C1: in every reachable state the cache holds at most 32 handles, every
\* cached path has exactly one open file description and no other path has one
C1_CacheBounded ==
  /\ Cardinality(DOMAIN files) <= MAX_CACHE_SIZE
  /\ DOMAIN files \subseteq DOMAIN fds
  /\ \A p \in DOMAIN fds : OpenHandles(p) = (IF p \in DOMAIN files THEN 1 ELSE 0)

\* the cache is full, a handle has been evicted and closed, and a worker has
\* acquired a handle next to the main thread
C1_Witness ==
  /\ Cardinality(DOMAIN files) = MAX_CACHE_SIZE
  /\ \E p \in DOMAIN fds : fds[p].closed >= 1
  /\ \E h \in hist : h.t \in Workers /\ h.acq # <<>>

\* C2: acquisition, eviction, the line write and the flush of one file write
\* are one critical section of the cache lock: a thread inside write_to_file
\* holds the lock, its handle stays cached until its flush, the buffer of its
\* handle holds nothing but its own line, and every file holds whole lines only
C2_OneCriticalSection ==
  /\ \A t \in Threads : InWrite(t) => cacheLock = t
  /\ \A t \in Threads : HoldsHandle(t) => th[t].path \in DOMAIN files
  /\ \A t \in Threads :
       /\ th[t].pc = "writeln_entry" => files[th[t].path] = <<>>
       /\ th[t].pc = "writeln_nl" => files[th[t].path] = <<EntryPiece(th[t].entry)>>
       /\ th[t].pc = "flush" =>
            files[th[t].path] = <<EntryPiece(th[t].entry), NewlinePiece>>
  /\ \A p \in DOMAIN disk : WholeLines(disk[p])

\* one worker is between the two pieces of its line while the other worker
\* waits for the lock to write to the same path
C2_Witness ==
  \E t1, t2 \in Workers :
    /\ t1 # t2
    /\ th[t1].pc = "writeln_nl"
    /\ th[t2].pc = "lock"
    /\ FullPath(th[t2].base, th[t2].name) = th[t1].path

\* s is an initial part of r
IsPrefix(s, r) == Len(s) <= Len(r) /\ \A i \in 1..Len(s) : s[i] = r[i]

\* the base paths init_logger installs
Bases == { <<c.base_path>> : c \in Configs }

\* a returned log call whose record passed the file severity gate
Admitted(h) == h.enabled /\ Rank(h.rec.level) <= Rank(h.fl)

\* C3: eviction only closes a handle: no step deletes a file or changes what
\* it already holds (a file only grows at its end, also when it is reopened
\* after an eviction), and when a log call returns, the line it wrote is in
\* the file of every path it acquired; so every line stays in its file, in
\* the order written
C3_EvictionKeepsData ==
  [][/\ \A p \in DOMAIN disk :
          /\ p \in DOMAIN disk'
          /\ LET old == disk[p]
                 new == disk'[p]
             IN IsPrefix(old, new)
     /\ \A h \in hist' \ hist :
          \A i \in 1..Len(h.acq) : HasLine(disk', h.acq[i], h.entry)]_vars

\* more than 32 distinct paths were written, and a path that was evicted has
\* been opened a second time and holds the lines of both of its handles
C3_Witness ==
  /\ Cardinality(DOMAIN disk) > MAX_CACHE_SIZE
  /\ \E p \in DOMAIN disk :
       /\ fds[p].opened >= 2
       /\ fds[p].closed >= 1
       /\ Len(disk[p]) >= 4

\* C4: when a log call whose record passed the file gate returns, it has
\* acquired, if the record is keyed, the per-key file and then the daily file
\* and nothing else, and both hold the same keyed line; if the record is not
\* keyed, it has acquired the daily file only, which holds the non-keyed line
C4_KeyedToBothFiles ==
  [][\A h \in hist' \ hist :
       Admitted(h) =>
         IF h.rec.uuid # NoKey
         THEN /\ h.entry = FormatKeyed(h.now, h.rec)
              /\ Len(h.acq) = 2
              /\ \E b \in Bases : h.acq[1] = FullPath(b, OrderLogName(h.rec.uuid))
              /\ \E b \in Bases : h.acq[2] = FullPath(b, DateLogName(h.now))
              /\ HasLine(disk', h.acq[1], h.entry)
              /\ HasLine(disk', h.acq[2], h.entry)
         ELSE /\ h.entry = FormatPlain(h.now, h.rec)
              /\ Len(h.acq) = 1
              /\ \E b \in Bases : h.acq[1] = FullPath(b, DateLogName(h.now))
              /\ HasLine(disk', h.acq[1], h.entry)]_vars

\* a worker's log call has returned (its locals stay as the call left them)
WorkerLogged(t) == th[t].pc = "done" /\ th[t].rec # NoRecord

\* the record of the worker's returned call passed the file gate
WorkerAdmitted(t) == WorkerLogged(t) /\ Rank(th[t].rec.level) <= Rank(th[t].fl)

\* one worker has logged a keyed record and the other a record without key,
\* both admitted to the file sink
C4_Witness ==
  /\ WorkerAdmitted("w1") /\ th["w1"].rec.uuid # NoKey
  /\ WorkerAdmitted("w2") /\ th["w2"].rec.uuid = NoKey

\* the pcs at which a thread waits for the cache lock or is inside write_to_file
WritePcs == {"lock", "get_or_open", "writeln_entry", "writeln_nl", "flush"}

\* C5: a log call whose record is less severe than the file threshold the call
\* read acquires no file and never enters write_to_file, whatever it printed
C5_BelowFileThresholdNoWrite ==
  /\ \A t \in Threads :
       (th[t].rec # NoRecord /\ Rank(th[t].rec.level) > Rank(th[t].fl)) =>
         (th[t].acq = <<>> /\ th[t].pc \notin WritePcs)
  /\ \A h \in hist : Rank(h.rec.level) > Rank(h.fl) => h.acq = <<>>

\* a worker's record below the file threshold was printed on the console and
\* its call has returned
C5_Witness ==
  /\ WorkerLogged("w1")
  /\ th["w1"].fl # "Off"
  /\ Rank(th["w1"].rec.level) > Rank(th["w1"].fl)
  /\ th["w1"].printed

\* C6: a per-key file (and the buffer of its handle) holds entries of records
\* that carried its key only, in the keyed shape
C6_PerKeyIsolation ==
  \A p \in DOMAIN disk :
    (Len(p) \in {3, 4} /\ p[Len(p) - 2] = "order_") =>
      LET s == disk[p] \o (IF p \in DOMAIN files THEN files[p] ELSE <<>>)
      IN \A i \in 1..Len(s) :
           s[i].part = "entry" =>
             /\ s[i].text.uuid = p[Len(p) - 1]
             /\ s[i].text.sep = "]<"
             /\ s[i].text.close = ">:"

\* next to the keys of the warm-up loop, one worker has written a record of
\* the key the cache had evicted and the other a record without key
C6_Witness ==
  /\ WorkerAdmitted("w1") /\ th["w1"].rec.uuid = NextKey
  /\ WorkerAdmitted("w2") /\ th["w2"].rec.uuid = NoKey
  /\ \E p \in DOMAIN disk : p[Len(p) - 2] = "order_" /\ p[Len(p) - 1] = NextKey

\* every worker has returned from its operation
AllFinished == spawned /\ \A t \in Workers : th[t].pc = "done"

\* C7: once all threads have finished, the per-key file of every keyed record
\* that passed the file gate is present and holds the complete line of the
\* record, every file is made of whole lines, and no buffer holds a rest
C7_ConcurrentFilesComplete ==
  AllFinished =>
    /\ \A h \in hist :
         (Admitted(h) /\ h.rec.uuid # NoKey) =>
           \E b \in Bases :
             HasLine(disk, FullPath(b, OrderLogName(h.rec.uuid)),
                     FormatKeyed(h.now, h.rec))
    /\ \A p \in DOMAIN disk : WholeLines(disk[p])
    /\ \A p \in DOMAIN files : files[p] = <<>>

\* both workers have logged a keyed record to the file sink and have
\* finished, with more files written than the cache has room for
C7_Witness ==
  /\ AllFinished
  /\ Cardinality(DOMAIN disk) > MAX_CACHE_SIZE
  /\ WorkerAdmitted("w1") /\ th["w1"].rec.uuid = LastKey
  /\ WorkerAdmitted("w2") /\ th["w2"].rec.uuid = NextKey

\* a thread is inside init_logger
InInit(t) ==
  th[t].pc \in {"set_base_path", "set_stdout_level", "set_file_level",
                "set_logger", "set_max_level"}

\* C8: a second call of init_logger returns normally and the last
\* configuration wins: no init_logger call panics, and when no call is in
\* flight the enabled threshold is the one of the call that set the thresholds
C8_ReinitLastWins ==
  /\ \A t \in Threads : th[t].arg # NoConfig => th[t].pc # "panicked"
  /\ (logger_set /\ \A t \in Threads : ~InInit(t)) =>
       max_level = MaxFilter(stdout_level, file_level)

\* C9: every call of log returns normally to its caller: no thread that
\* emitted a record panics
C9_LogAlwaysReturns ==
  \A t \in Threads : th[t].rec # NoRecord => th[t].pc # "panicked"

\* C10: a file-open failure halts only the thread whose open failed: the log
\* calls other threads make afterwards still acquire the cache, so no thread
\* ever fails to lock it
C10_OpenFailureIsLocal ==
  \A t \in Threads : th[t].panic # "PoisonError"

\* C11: once the logger is installed and no init_logger call is in flight,
\* enabled answers for every level with the more verbose of the two
\* configured thresholds: a level is enabled exactly when the console
\* threshold or the file threshold admits it
C11_EnabledIsMaxOfThresholds ==
  (logger_set /\ \A t \in Threads : ~InInit(t)) =>
    \A l \in Levels :
      IsEnabled([level |-> l], max_level) <=>
        (Rank(l) <= Rank(stdout_level) \/ Rank(l) <= Rank(file_level))

DailyNameOf(h) ==
  LET p == h.acq[Len(h.acq)] IN SubSeq(p, Len(p) - 6, Len(p))

\* C14: the daily file name is a function of the calendar date of the record
\* and nothing else, computed anew for every record: of any two returned
\* calls that passed the file gate, the daily files have the same name exactly
\* when the records were stamped on the same date, and each line is in the
\* daily file of its own date, also after the date has changed
C14_DailyNameByDate ==
  [][\A h \in hist' \ hist :
       Admitted(h) =>
         /\ HasLine(disk', h.acq[Len(h.acq)], h.entry)
         /\ \A g \in hist' :
              Admitted(g) =>
                ((DayNo(g.now) = DayNo(h.now)) <=> (DailyNameOf(g) = DailyNameOf(h)))]_vars

\* after the warm-up loop, one worker has logged on the day the process
\* started and the other after midnight, to a second daily file
C14_Witness ==
  /\ WorkerAdmitted("w1") /\ DayNo(th["w1"].now) = 0
  /\ WorkerAdmitted("w2") /\ DayNo(th["w2"].now) = 1
  /\ th["w1"].acq[Len(th["w1"].acq)] # th["w2"].acq[Len(th["w2"].acq)]
  /\ \A t \in Workers : HasLine(disk, th[t].acq[Len(th[t].acq)], th[t].entry)

\* p is the path of a daily file
IsDaily(p) == Len(p) >= 7 /\ p[Len(p) - 6] = "log_"

\* the entries of a file content, without the line terminators
Entries(s) == SelectSeq(s, LAMBDA x : x.part = "entry")

\* in the file content s the line of entry e comes before the line of entry f
Precedes(s, e, f) ==
  \E j \in 1..Len(s) :
    /\ s[j] = EntryPiece(f)
    /\ \E i \in 1..(j - 1) : s[i] = EntryPiece(e)

\* the log call g had returned when the log call h read its timestamp
ReturnedBefore(g, h) == g.seq < h.prior

C16_EvictionIsLRU ==
  [][LET gone == DOMAIN files \ DOMAIN files'
     IN gone # {} =>
          /\ Cardinality(gone) = 1
          /\ Cardinality(DOMAIN files) = MAX_CACHE_SIZE
          /\ \E t \in Threads :
               /\ th[t].pc = "get_or_open"
               /\ th'[t].pc # "get_or_open"
               /\ th[t].path \notin DOMAIN files
          /\ \A p \in gone : \A q \in DOMAIN files \ {p} : lastUse[p] < lastUse[q]]_vars

\* a worker has opened a path the full cache did not hold: a path that was
\* used before the others has been closed and the cache is full again
C16_Witness ==
  /\ Cardinality(DOMAIN files) = MAX_CACHE_SIZE
  /\ \E t \in Workers :
       /\ th[t].pc = "writeln_entry"
       /\ fds[th[t].path].opened = 1
       /\ disk[th[t].path] = <<>>
       /\ lastUse[th[t].path] > 2 * WarmupLen
  /\ \E q \in DOMAIN fds : q \notin DOMAIN files /\ fds[q].closed = fds[q].opened

\* C17: a cache hit changes only recency: it opens and closes no file,
\* leaves the cached paths, their buffers and the files as they are, moves
\* the requested path to the back of the queue and keeps the order of the
\* other paths
C17_HitChangesOnlyRecency ==
  [][\A t \in Threads :
       (th[t].pc = "get_or_open" /\ th'[t].pc # "get_or_open"
          /\ th[t].path \in DOMAIN files) =>
         /\ th'[t].pc = "writeln_entry"
         /\ files' = files
         /\ disk' = disk
         /\ fds' = fds
         /\ Len(order') = Len(order)
         /\ order'[Len(order')] = th[t].path
         /\ SelectSeq(order', LAMBDA f : f # th[t].path)
              = SelectSeq(order, LAMBDA f : f # th[t].path)]_vars

\* a worker got the handle of a path from the full cache: the file was
\* opened once, holds earlier lines, and its path is the most recently used
C17_Witness ==
  /\ Cardinality(DOMAIN files) = MAX_CACHE_SIZE
  /\ \E t \in Workers :
       /\ th[t].pc = "writeln_entry"
       /\ fds[th[t].path].opened = 1
       /\ fds[th[t].path].closed = 0
       /\ disk[th[t].path] # <<>>
       /\ order[Len(order)] = th[t].path
       /\ order[1] # th[t].path

\* C18: in every reachable state the recency queue holds exactly the keys
\* of the handle map, each of them once
C18_OrderIsPermutationOfKeys ==
  /\ Len(order) = Cardinality(DOMAIN files)
  /\ {order[i] : i \in 1..Len(order)} = DOMAIN files

\* an open has failed after the eviction it followed: the cache lock is
\* poisoned and the cache holds one path less than its capacity
C18_Witness ==
  /\ poisoned
  /\ Cardinality(DOMAIN files) = MAX_CACHE_SIZE - 1
  /\ Len(order) = MAX_CACHE_SIZE - 1
  /\ \E t \in Threads : th[t].panic = "Failed to open log file"

\* two returned calls logged records of the same key from different threads,
\* both passed the file gate and wrote to the same per-key and daily file
SameKeyPair(g, h) ==
  /\ Admitted(g) /\ Admitted(h)
  /\ h.rec.uuid # NoKey
  /\ g.rec.uuid = h.rec.uuid
  /\ g.t # h.t
  /\ g.acq = h.acq

\* C19 (as stated): two records of the same key logged by different threads
\* are in the same relative order in the per-key file and in the daily file
C19_SameOrderInBothFiles ==
  [][\A h \in hist' \ hist :
       \A g \in hist :
         SameKeyPair(g, h) =>
           LET perKey == disk'[h.acq[1]]
               daily == disk'[h.acq[2]]
           IN Precedes(perKey, g.entry, h.entry) <=> Precedes(daily, g.entry, h.entry)]_vars

\* C19 (amended): when the log calls of the two records do not overlap (one
\* had returned when the other read its timestamp), the line of the earlier
\* call comes first in the per-key file and in the daily file
C19_SameOrderUnlessOverlapping ==
  [][\A h \in hist' \ hist :
       \A g \in hist :
         (SameKeyPair(g, h) /\ ReturnedBefore(g, h)) =>
           LET perKey == disk'[h.acq[1]]
               daily == disk'[h.acq[2]]
           IN Precedes(perKey, g.entry, h.entry) /\ Precedes(daily, g.entry, h.entry)]_vars

\* both workers have logged a record of the key the main thread logged
\* last, to the same two files, and the call of one had returned when the
\* other read its timestamp
C19_Witness ==
  /\ WorkerAdmitted("w1") /\ th["w1"].rec.uuid = LastKey
  /\ WorkerAdmitted("w2") /\ th["w2"].rec.uuid = LastKey
  /\ th["w1"].acq = th["w2"].acq
  /\ \E g \in hist : g.t = "w2" /\ g.seq < th["w1"].prior

\* a thread is inside a log call that has not returned
InLog(t) == th[t].rec # NoRecord /\ th[t].pc \notin {"idle", "done"}

\* C20: no thread holds more than one of the logger's locks: a thread holds
\* at most one lock between its statements and none when it is about to
\* take one, and the cache lock is held inside write_to_file only; and while
\* every open succeeds, every log call that was started returns (no thread stays inside a log call
\* for ever)
C20_OneLockAtATimeAndLogReturns ==
  /\ [](\A t \in Threads :
          /\ Cardinality(Holds(t)) <= 1
          /\ Acquires(th[t].pc) # {} => Holds(t) = {}
          /\ cacheLock = t => InWrite(t))
  /\ \A t \in Threads : []<>(~InLog(t))

\* a worker's log call has returned although the other worker called
\* init_logger in the meantime: the call wrote the per-key file under the
\* old base path and the daily file under the new one
C20_Witness ==
  \E t, u \in Workers :
    /\ WorkerAdmitted(t)
    /\ Len(th[t].acq) = 2
    /\ th[t].acq[1][1] # th[t].acq[2][1]
    /\ th[u].arg # NoConfig
    /\ th[u].pc = "panicked"

====
